---- MODULE Spec2Model ----
(***************************************************************************)
(* One page load of the TMDB advanced userscripts: the client script that  *)
(* owns the WebSocket (version-checking client), and the find-duplicate-   *)
(* images script (gallery snapshot, reconciler, threshold widgets).        *)
(* JavaScript handlers run to completion, so every handler is one action.  *)
(***************************************************************************)
EXTENDS Integers, Sequences, FiniteSets, TLC

\* ------------------------------------------------------------------ bounds
\* longest sorted_images list a result frame carries
MaxSortedLen == 2
\* most names in a duplicate_images list of a result frame
MaxDups == 1

\* ------------------------------------------------------- program constants
CLIENT_VERSION == 1
SLIDER_MIN == 1
SLIDER_MAX == 100

\* --------------------------------------------------------- text (strings)
\* A string whose characters matter is a sequence of one-character strings.
Digits == {"0", "1", "2", "3", "4", "5", "6", "7", "8", "9"}

DigitVal(c) ==
    CASE c = "0" -> 0 [] c = "1" -> 1 [] c = "2" -> 2 [] c = "3" -> 3
      [] c = "4" -> 4 [] c = "5" -> 5 [] c = "6" -> 6 [] c = "7" -> 7
      [] c = "8" -> 8 [] c = "9" -> 9

DigitChar(d) ==
    CASE d = 0 -> "0" [] d = 1 -> "1" [] d = 2 -> "2" [] d = 3 -> "3"
      [] d = 4 -> "4" [] d = 5 -> "5" [] d = 6 -> "6" [] d = 7 -> "7"
      [] d = 8 -> "8" [] d = 9 -> "9"

\* String(n) for an integer n >= 0
RECURSIVE ToStr(_)
ToStr(n) == IF n < 10 THEN <<DigitChar(n)>>
            ELSE ToStr(n \div 10) \o <<DigitChar(n % 10)>>

RECURSIVE TrimLeft(_)
TrimLeft(s) == IF s # <<>> /\ Head(s) = " " THEN TrimLeft(Tail(s)) ELSE s

RECURSIVE TrimRight(_)
TrimRight(s) == IF s # <<>> /\ s[Len(s)] = " "
                THEN TrimRight(SubSeq(s, 1, Len(s) - 1)) ELSE s

\* String.prototype.trim
Trim(s) == TrimRight(TrimLeft(s))

\* /^\d+$/.test(s)
IsDigitsOnly(s) == Len(s) > 0 /\ \A i \in 1..Len(s) : s[i] \in Digits

\* the longest prefix of s made of digits
RECURSIVE DigitPrefix(_)
DigitPrefix(s) == IF s # <<>> /\ Head(s) \in Digits
                  THEN <<Head(s)>> \o DigitPrefix(Tail(s)) ELSE <<>>

RECURSIVE DigitsValue(_)
DigitsValue(s) == IF s = <<>> THEN 0
                  ELSE DigitsValue(SubSeq(s, 1, Len(s) - 1)) * 10 + DigitVal(s[Len(s)])

\* parseInt(s, 10): leading blanks skipped, an optional sign, then the longest
\* run of digits; NaN when there is none. Text after the digits is ignored.
ParseInt(s) ==
    LET t    == TrimLeft(s)
        neg  == t # <<>> /\ Head(t) = "-"
        u    == IF t # <<>> /\ Head(t) \in {"-", "+"} THEN Tail(t) ELSE t
        ds   == DigitPrefix(u)
    IN  IF ds = <<>> THEN [nan |-> TRUE, val |-> 0]
        ELSE [nan |-> FALSE, val |-> IF neg THEN 0 - DigitsValue(ds) ELSE DigitsValue(ds)]

Min(a, b) == IF a < b THEN a ELSE b
Max(a, b) == IF a > b THEN a ELSE b

\* (val / 100).toFixed(2) for an integer val in 0..199: always a string
ToFixed2(val) ==
    [type |-> "string",
     text |-> <<DigitChar(val \div 100), ".", DigitChar((val % 100) \div 10), DigitChar(val % 10)>>]

\* the number literals the script starts from
NumberThreshold(profile) ==
    [type |-> "number",
     text |-> IF profile THEN <<"0", ".", "9", "5">> ELSE <<"0", ".", "8", "5">>]

\* Math.round(t * 100) where t is a number or a numeric string "d.dd" / "d.d" / "d"
Times100Rounded(t) ==
    LET s    == t.text
        int  == DigitPrefix(s)
        rest == SubSeq(s, Len(int) + 1, Len(s))
        frac == IF rest # <<>> /\ Head(rest) = "." THEN DigitPrefix(Tail(rest)) ELSE <<>>
        f2   == SubSeq(frac \o <<"0", "0">>, 1, 2)
    IN  DigitsValue(int) * 100 + DigitsValue(f2)

\* ------------------------------------------------------------ the gallery
\* A list item of ul.images: id is the <li> element's identity ("no_results"
\* for the placeholder), name the last path segment of its anchor's href (""
\* when the item has no anchor or no href), info whether it holds a div.info,
\* hl whether that div carries the class find-dups-red-card.
Includes(s, x) == \E i \in 1..Len(s) : s[i] = x

\* a scan that does not look for the name among those already taken
RECURSIVE ScanImagesNoDedup(_, _)
ScanImagesNoDedup(lis, images) ==
    IF lis = <<>> THEN images
    ELSE ScanImagesNoDedup(Tail(lis),
                           IF Head(lis).name # "" THEN Append(images, Head(lis).name) ELSE images)

RECURSIVE ScanImages(_, _)
ScanImages(lis, images) ==
    IF lis = <<>> THEN images
    ELSE LET imageName == Head(lis).name
         IN  ScanImages(Tail(lis),
                        IF imageName # "" /\ ~Includes(images, imageName)
                        THEN Append(images, imageName) ELSE images)

\* the filenames getAllImagesFromCurrentPage returns for the document
getAllImagesFromCurrentPage(ulp, lis) == ScanImages(IF ulp THEN lis ELSE <<>>, <<>>)

\* new Map(sortedImages.map((name, index) => [name, index])): a repeated name
\* keeps its last index. Infinity stands for "not in the map".
Infinity == 1000000

orderMapGet(sortedImages, fileName) ==
    LET hits == {i \in 1..Len(sortedImages) : sortedImages[i] = fileName}
    IN  IF hits = {} THEN Infinity ELSE (CHOOSE i \in hits : \A j \in hits : j <= i) - 1

\* a comparator that returns indexB - indexA
compareItemsReversed(sortedImages, a, b) ==
    LET indexA == orderMapGet(sortedImages, a.name)
        indexB == orderMapGet(sortedImages, b.name)
    IN  IF indexA = Infinity /\ indexB = Infinity THEN 0
        ELSE IF indexB < indexA THEN -1
        ELSE IF indexB > indexA THEN 1
        ELSE 0

\* the comparator of items.sort: indexA - indexB, where Infinity - Infinity is
\* NaN, which Array.prototype.sort takes as +0
compareItems(sortedImages, a, b) ==
    LET indexA == orderMapGet(sortedImages, a.name)
        indexB == orderMapGet(sortedImages, b.name)
    IN  IF indexA = Infinity /\ indexB = Infinity THEN 0
        ELSE IF indexA < indexB THEN -1
        ELSE IF indexA > indexB THEN 1
        ELSE 0

\* an unstable sort: an item goes before the first item that does not compare
\* less than it
RECURSIVE InsertItemUnstable(_, _, _)
InsertItemUnstable(sortedImages, x, s) ==
    IF s = <<>> THEN <<x>>
    ELSE IF compareItems(sortedImages, Head(s), x) >= 0 THEN <<x>> \o s
    ELSE <<Head(s)>> \o InsertItemUnstable(sortedImages, x, Tail(s))

\* Array.prototype.sort is stable: an item goes before the first item that
\* compares greater than it
RECURSIVE InsertItem(_, _, _)
InsertItem(sortedImages, x, s) ==
    IF s = <<>> THEN <<x>>
    ELSE IF compareItems(sortedImages, Head(s), x) > 0 THEN <<x>> \o s
    ELSE <<Head(s)>> \o InsertItem(sortedImages, x, Tail(s))

RECURSIVE SortItems(_, _, _)
SortItems(sortedImages, todo, done) ==
    IF todo = <<>> THEN done
    ELSE SortItems(sortedImages, Tail(todo), InsertItem(sortedImages, Head(todo), done))

\* a re-insert loop that toggles the class of a duplicate and removes nothing
MarkItemToggle(duplicateImages, item) ==
    IF item.info /\ item.name # "" /\ Includes(duplicateImages, item.name)
    THEN [item EXCEPT !.hl = ~item.hl]
    ELSE item

\* a re-insert loop that adds the class and never removes it
MarkItemAddOnly(duplicateImages, item) ==
    IF item.info
    THEN [item EXCEPT !.hl = item.hl \/ (item.name # "" /\ Includes(duplicateImages, item.name))]
    ELSE item

\* the re-insert loop: the class is removed, then added again for a duplicate;
\* an item without anchor has imageName undefined, which no list includes
MarkItem(duplicateImages, item) ==
    IF item.info
    THEN [item EXCEPT !.hl = item.name # "" /\ Includes(duplicateImages, item.name)]
    ELSE item

\* a marking pass that is skipped when there is nothing to highlight
MarkItemsSkipEmpty(duplicateImages, srt) ==
    IF duplicateImages = <<>> THEN srt
    ELSE [i \in 1..Len(srt) |-> MarkItem(duplicateImages, srt[i])]

\* the re-insert loop over the sorted items
MarkItems(duplicateImages, srt) == [i \in 1..Len(srt) |-> MarkItem(duplicateImages, srt[i])]

\* a sortImageElements that takes an undefined sortedImages as the empty list
sortImageElementsDefaultsEmpty(sortedImages, duplicateImages, ulp, lis, sorted) ==
    IF ~ulp THEN [items |-> lis, isPageSorted |-> sorted, threw |-> FALSE]
    ELSE [items |-> MarkItems(duplicateImages, SortItems(sortedImages.list, lis, <<>>)),
          isPageSorted |-> TRUE, threw |-> FALSE]

\* sortImageElements(sortedImages, duplicateImages) on the document (ulp, lis):
\* sortedImages.present = FALSE is an undefined argument, on which
\* sortedImages.map throws before anything is changed.
sortImageElements(sortedImages, duplicateImages, ulp, lis, sorted) ==
    IF ~ulp THEN [items |-> lis, isPageSorted |-> sorted, threw |-> FALSE]
    ELSE IF ~sortedImages.present THEN [items |-> lis, isPageSorted |-> sorted, threw |-> TRUE]
    ELSE [items |-> MarkItems(duplicateImages, SortItems(sortedImages.list, lis, <<>>)),
          isPageSorted |-> TRUE, threw |-> FALSE]

\* ----------------------------------------------------------------- inputs
FileNames == {"a.jpg", "b.jpg", "c.jpg"}

BoundedSeqs(S, n) == UNION {[1..k -> S] : k \in 0..n}

Range(s) == {s[i] : i \in 1..Len(s)}

SetToSeq(S) == CHOOSE s \in [1..Cardinality(S) -> S] : Range(s) = S

Li(id, name, info) == [id |-> id, name |-> name, info |-> info, hl |-> FALSE]

\* the documents a page load can start from: the end-to-end page, a page with
\* an item without anchor and an item without info block, the no_results
\* placeholder, and a page without ul.images
Pages ==
    { [ul |-> TRUE, items |-> <<Li("i1", "a.jpg", TRUE), Li("i2", "b.jpg", TRUE),
                                Li("i3", "a.jpg", TRUE), Li("i4", "c.jpg", TRUE)>>],
      [ul |-> TRUE, items |-> <<Li("i1", "b.jpg", TRUE), Li("i2", "", TRUE),
                                Li("i3", "a.jpg", FALSE)>>],
      [ul |-> TRUE, items |-> <<Li("no_results", "", FALSE)>>],
      [ul |-> FALSE, items |-> <<>>] }

Present(l) == [present |-> TRUE, list |-> l]
Absent == [present |-> FALSE, list |-> <<>>]

\* sorted_images of a result frame: missing, or any list of names up to the bound
SortedInputs == {Absent} \cup {Present(l) : l \in BoundedSeqs(FileNames, MaxSortedLen)}

\* the documents the reconciler is run on with every result within the bounds
GalleryPages ==
    { [ul |-> TRUE, items |-> <<Li("i1", "a.jpg", TRUE), Li("i2", "b.jpg", TRUE),
                                Li("i3", "a.jpg", TRUE)>>],
      [ul |-> TRUE, items |-> <<Li("i1", "c.jpg", TRUE), Li("i2", "", TRUE),
                                Li("i3", "a.jpg", FALSE)>>],
      [ul |-> TRUE, items |-> <<Li("i1", "b.jpg", TRUE), Li("i2", "c.jpg", TRUE),
                                Li("i3", "a.jpg", TRUE)>>] }

\* duplicate_images of a result frame: missing, or a list of distinct names
DupInputs == {Absent} \cup
             {Present(SetToSeq(S)) : S \in {T \in SUBSET FileNames : Cardinality(T) <= MaxDups}}

\* the paths the find-duplicates script is matched on (its @match lines)
Paths == {"/images/backdrops", "/images/posters", "/images/logos", "/images/profiles"}

\* what the numeric box can hold when its input event fires
RawInputs ==
    { <<>>, <<"a", "b", "c">>, <<"0">>, <<"7">>, <<"1", "0", "0">>, <<"1", "5", "0">>,
      <<"-", "5">>, <<"1", ".", "5">>, <<"1", "e", "2">>, <<"0", "0", "9">> }

\* data of a version_result frame
VersionTokens ==
    { <<"1">>, <<"0">>, <<"2">>, <<"a", "b", "c">>, <<>>, <<"1", ".", "9">>, <<" ", "1">>,
      <<"1", "0">> }

Frame(kind, text, action, token, hasData, dups, sorted) ==
    [kind |-> kind, text |-> text, action |-> action, token |-> token,
     hasData |-> hasData, dups |-> dups, sorted |-> sorted]

\* frames that fail JSON.parse: the raw commands and any other text
RawFrames == {Frame("raw", t, "", <<>>, FALSE, Absent, Absent) : t \in {"reload", "connected", "hello"}}

ToastFrame == Frame("json", "", "toast", <<>>, TRUE, Absent, Absent)

OtherFrame == Frame("json", "", "ping", <<>>, TRUE, Absent, Absent)

VersionFrames == {Frame("json", "", "version_result", t, TRUE, Absent, Absent) : t \in VersionTokens}

ResultFrame(dups, sorted) == Frame("json", "", "find_duplicate_images_result", <<>>, TRUE, dups, sorted)

NoDataFrame == Frame("json", "", "find_duplicate_images_result", <<>>, FALSE, Absent, Absent)

\* every find_duplicate_images_result within the bounds, and one without data
ResultFrames == {ResultFrame(d, s) : d \in DupInputs, s \in SortedInputs} \cup {NoDataFrame}

\* the results a session is run with: the end-to-end answer, partial and
\* repeated orders, a name no item has, missing fields
SessionSorted ==
    { Absent, Present(<<"c.jpg", "a.jpg", "b.jpg">>), Present(<<"b.jpg", "a.jpg">>),
      Present(<<"", "c.jpg">>), Present(<<"a.jpg", "x.jpg", "a.jpg">>) }

SessionDups == { Absent, Present(<<>>), Present(<<"a.jpg">>), Present(<<"b.jpg", "x.jpg">>) }

SessionResultFrames == {ResultFrame(d, s) : d \in SessionDups, s \in SessionSorted} \cup {NoDataFrame}

ControlFrames == RawFrames \cup {ToastFrame, OtherFrame} \cup VersionFrames

InboundFrames == ControlFrames \cup SessionResultFrames

\* ------------------------------------------------------------------ state
VARIABLES
    loaded,                  \* this page load is still running (no reload yet)
    readyState,              \* the WebSocket's readyState
    failing,                 \* an error event was fired, its close event is next
    socketState,             \* TmdbAdvScp.socketState of the client's namespace
    everOpen,                \* history: socketState has been true
    lostWarnings,            \* history: "Lost connection" warnings logged
    versionRequested,        \* history: "version_request" was sent on the socket
    versionDecided,          \* history: a version_result frame was given its outcome
    exposed,                 \* window.TmdbAdvScp holds the client's namespace
    winSocketState,          \* window.TmdbAdvScp.socketState (undefined = FALSE)
    body,                    \* document.body exists
    header,                  \* section.inner_content section.header exists
    pathname,                \* document.location.pathname, by its image path
    fdPc,                    \* the find-duplicates script: waiting/started/ready
    imageType,
    isPageSorted,
    originalSortOrder,
    ul,                      \* ul.images exists
    items,                   \* its <li> children, in document order
    firstItems,              \* history: the list items as the page load found them
    capturedCatalog,         \* history: the first catalog captured, if any
    minSimilarityThreshold,
    inputBox,                \* inputBox.value
    slider,                  \* slider.value
    last                     \* what the handler that ran last did

vars == <<loaded, readyState, failing, socketState, everOpen, lostWarnings,
          versionRequested, versionDecided, exposed, winSocketState, body, header, pathname, fdPc, imageType, isPageSorted,
          originalSortOrder, ul, items, firstItems, capturedCatalog,
          minSimilarityThreshold, inputBox, slider, last>>

channelVars == <<readyState, failing, socketState, everOpen, lostWarnings>>
negotiationVars == <<versionRequested, versionDecided>>
windowVars == <<exposed, winSocketState>>
documentVars == <<body, header, pathname>>
galleryVars == <<isPageSorted, originalSortOrder, ul, items, firstItems, capturedCatalog>>
widgetVars == <<minSimilarityThreshold, inputBox, slider>>

NoThreshold == [type |-> "none", text |-> <<>>]

NoFrame == [action |-> "none", images |-> <<>>, imageType |-> "null",
            minSimilarityThreshold |-> NoThreshold, delivered |-> FALSE]

\* the record of a handler run; a handler sets the fields it gives a value
Ran(h) ==
    [h |-> h, frame |-> "none", outcome |-> "none", exposedNow |-> FALSE,
     toast |-> "none", warn |-> "none", connOpen |-> FALSE, find |-> FALSE,
     out |-> NoFrame, reset |-> FALSE, applied |-> FALSE, threw |-> FALSE, raw |-> <<>>]

NoCatalog == [present |-> FALSE, list |-> <<>>]

InitWith(pages, paths) ==
    /\ loaded = TRUE
    /\ readyState = "CONNECTING"
    /\ failing = FALSE
    /\ socketState = FALSE
    /\ everOpen = FALSE
    /\ lostWarnings = 0
    /\ versionRequested = FALSE
    /\ versionDecided = FALSE
    /\ exposed = FALSE
    /\ winSocketState = FALSE
    /\ body = FALSE
    /\ header = FALSE
    /\ pathname \in paths
    /\ fdPc = "waiting"
    /\ imageType = "null"
    /\ isPageSorted = FALSE
    /\ originalSortOrder = <<>>
    /\ \E p \in pages : ul = p.ul /\ items = p.items /\ firstItems = p.items
    /\ capturedCatalog = NoCatalog
    /\ minSimilarityThreshold = NoThreshold
    /\ inputBox = <<>>
    /\ slider = <<>>
    /\ last = Ran("init")

Init == InitWith(Pages, {"/images/backdrops", "/images/profiles"})

\* ------------------------------------------------- the client: the channel
\* socket "open" listener
OpenEvent ==
    /\ loaded /\ ~failing
    /\ readyState = "CONNECTING"
    /\ readyState' = "OPEN"
    /\ socketState' = TRUE
    /\ everOpen' = TRUE
    /\ last' = Ran("open")
    /\ UNCHANGED <<negotiationVars, loaded, failing, lostWarnings, windowVars, documentVars, fdPc, imageType,
                   galleryVars, widgetVars>>

\* socket.onerror: the browser fails the connection, fires error and then, in
\* the same task, close. The handler only logs.
ErrorEvent ==
    /\ loaded /\ ~failing
    /\ readyState \in {"CONNECTING", "OPEN"}
    /\ readyState' = "CLOSED"
    /\ failing' = TRUE
    /\ last' = [Ran("error") EXCEPT !.connOpen = socketState]
    /\ UNCHANGED <<negotiationVars, loaded, socketState, everOpen, lostWarnings, windowVars, documentVars, fdPc,
                   imageType, galleryVars, widgetVars>>

\* a close listener that opens a new socket
CloseEventReconnect ==
    /\ loaded
    /\ failing \/ readyState = "OPEN"
    /\ readyState' = "CONNECTING"
    /\ failing' = FALSE
    /\ socketState' = FALSE
    /\ lostWarnings' = IF socketState THEN lostWarnings + 1 ELSE lostWarnings
    /\ last' = [Ran("close") EXCEPT !.connOpen = socketState,
                                    !.warn = IF socketState THEN "lost" ELSE "none"]
    /\ UNCHANGED <<negotiationVars, loaded, everOpen, windowVars, documentVars, fdPc, imageType, galleryVars,
                   widgetVars>>

\* a close listener that warns without looking at socketState
CloseEventAlwaysWarn ==
    /\ loaded
    /\ failing \/ readyState = "OPEN"
    /\ readyState' = "CLOSED"
    /\ failing' = FALSE
    /\ socketState' = FALSE
    /\ lostWarnings' = lostWarnings + 1
    /\ last' = [Ran("close") EXCEPT !.connOpen = socketState, !.warn = "lost"]
    /\ UNCHANGED <<negotiationVars, loaded, everOpen, windowVars, documentVars, fdPc, imageType, galleryVars,
                   widgetVars>>

\* a close listener that warns and leaves socketState as it was
CloseEventKeepsState ==
    /\ loaded
    /\ failing \/ readyState = "OPEN"
    /\ readyState' = "CLOSED"
    /\ failing' = FALSE
    /\ socketState' = socketState
    /\ lostWarnings' = IF socketState THEN lostWarnings + 1 ELSE lostWarnings
    /\ last' = [Ran("close") EXCEPT !.connOpen = socketState,
                                    !.warn = IF socketState THEN "lost" ELSE "none"]
    /\ UNCHANGED <<negotiationVars, loaded, everOpen, windowVars, documentVars, fdPc, imageType, galleryVars,
                   widgetVars>>

\* socket "close" listener: after an error, or when an open connection ends
CloseEvent ==
    /\ loaded
    /\ failing \/ readyState = "OPEN"
    /\ readyState' = "CLOSED"
    /\ failing' = FALSE
    /\ socketState' = FALSE
    /\ lostWarnings' = IF socketState THEN lostWarnings + 1 ELSE lostWarnings
    /\ last' = [Ran("close") EXCEPT !.connOpen = socketState,
                                    !.warn = IF socketState THEN "lost" ELSE "none"]
    /\ UNCHANGED <<negotiationVars, loaded, everOpen, windowVars, documentVars, fdPc, imageType, galleryVars,
                   widgetVars>>

\* a version check with the two update branches exchanged
versionOutcomeSwapped(token) ==
    LET r == ParseInt(token)
    IN  IF ~r.nan /\ CLIENT_VERSION = r.val THEN "Compatible"
        ELSE IF ~r.nan /\ CLIENT_VERSION < r.val THEN "ServerOutdated"
        ELSE IF ~r.nan /\ CLIENT_VERSION > r.val THEN "ClientOutdated"
        ELSE "Undetermined"

\* the version_result branch taken for the data of the frame
versionOutcome(token) ==
    LET r == ParseInt(token)
    IN  IF ~r.nan /\ CLIENT_VERSION = r.val THEN "Compatible"
        ELSE IF ~r.nan /\ CLIENT_VERSION > r.val THEN "ServerOutdated"
        ELSE IF ~r.nan /\ CLIENT_VERSION < r.val THEN "ClientOutdated"
        ELSE "Undetermined"

versionToast(outcome) ==
    CASE outcome = "Compatible" -> "none"
      [] outcome = "ServerOutdated" -> "server_update"
      [] outcome = "ClientOutdated" -> "userscripts_update"
      [] outcome = "Undetermined" -> "version_undetermined"

\* a listener that keeps a handshake state: after the first request a "connected"
\* frame sends nothing, after the first outcome a version_result decides nothing
clientListenerOnce(f) ==
    LET decides == f.kind = "json" /\ f.action = "version_result" /\ ~versionDecided
        outcome == IF decides THEN versionOutcome(f.token) ELSE "none"
    IN  [frame   |-> IF f.kind = "json"
                     THEN (IF f.action \in {"toast", "version_result"} THEN f.action ELSE "unrecognized")
                     ELSE (IF f.text \in {"reload", "connected"} THEN f.text ELSE "unexpected"),
         outcome |-> outcome,
         expose  |-> outcome = "Compatible",
         toast   |-> IF f.kind = "json" /\ f.action = "toast" THEN "server_toast"
                     ELSE IF outcome # "none" THEN versionToast(outcome) ELSE "none",
         reload  |-> f.kind = "raw" /\ f.text = "reload",
         request |-> f.kind = "raw" /\ f.text = "connected" /\ ~versionRequested]

\* a listener that exposes the namespace whenever the server's version is a number
clientListenerExposeOnMismatch(f) ==
    LET outcome == IF f.kind = "json" /\ f.action = "version_result"
                   THEN versionOutcome(f.token) ELSE "none"
    IN  [frame   |-> IF f.kind = "json"
                     THEN (IF f.action \in {"toast", "version_result"} THEN f.action ELSE "unrecognized")
                     ELSE (IF f.text \in {"reload", "connected"} THEN f.text ELSE "unexpected"),
         outcome |-> outcome,
         expose  |-> outcome \in {"Compatible", "ServerOutdated", "ClientOutdated"},
         toast   |-> IF f.kind = "json" /\ f.action = "toast" THEN "server_toast"
                     ELSE IF outcome # "none" THEN versionToast(outcome) ELSE "none",
         reload  |-> f.kind = "raw" /\ f.text = "reload",
         request |-> f.kind = "raw" /\ f.text = "connected"]

\* a listener whose switch has no default branch: any other text falls into
\* the "connected" case
clientListenerUnknownRequests(f) ==
    LET outcome == IF f.kind = "json" /\ f.action = "version_result"
                   THEN versionOutcome(f.token) ELSE "none"
    IN  [frame   |-> IF f.kind = "json"
                     THEN (IF f.action \in {"toast", "version_result"} THEN f.action ELSE "unrecognized")
                     ELSE (IF f.text \in {"reload", "connected"} THEN f.text ELSE "unexpected"),
         outcome |-> outcome,
         expose  |-> outcome = "Compatible",
         toast   |-> IF f.kind = "json" /\ f.action = "toast" THEN "server_toast"
                     ELSE IF outcome # "none" THEN versionToast(outcome) ELSE "none",
         reload  |-> f.kind = "raw" /\ f.text = "reload",
         request |-> f.kind = "raw" /\ f.text # "reload"]

\* what the client's message listener does with a frame
clientListener(f) ==
    LET outcome == IF f.kind = "json" /\ f.action = "version_result"
                   THEN versionOutcome(f.token) ELSE "none"
    IN  [frame   |-> IF f.kind = "json"
                     THEN (IF f.action \in {"toast", "version_result"} THEN f.action ELSE "unrecognized")
                     ELSE (IF f.text \in {"reload", "connected"} THEN f.text ELSE "unexpected"),
         outcome |-> outcome,
         expose  |-> outcome = "Compatible",
         toast   |-> IF f.kind = "json" /\ f.action = "toast" THEN "server_toast"
                     ELSE IF outcome # "none" THEN versionToast(outcome) ELSE "none",
         reload  |-> f.kind = "raw" /\ f.text = "reload",
         request |-> f.kind = "raw" /\ f.text = "connected"]

\* a frame no listener of the find-duplicates script acts on
noResult(lis, sorted) ==
    [items |-> lis, isPageSorted |-> sorted, toast |-> "none",
     reset |-> FALSE, applied |-> FALSE, threw |-> FALSE]

\* the listener's branches around a call r of sortImageElements: duplicates
\* found, and the reset on a result without duplicates
foundResult(r) ==
    [items |-> r.items, isPageSorted |-> r.isPageSorted, toast |-> "found",
     reset |-> FALSE, applied |-> ~r.threw, threw |-> r.threw]

restoredResult(r) ==
    [items |-> r.items, isPageSorted |-> FALSE, toast |-> "no_duplicates",
     reset |-> TRUE, applied |-> FALSE, threw |-> FALSE]

\* a listener that restores the order on a result without duplicates and
\* leaves isPageSorted as sortImageElements set it
resultListenerNoUnsort(f, ulp, lis, sorted, original) ==
    LET idle == noResult(lis, sorted)
    IN  IF ~(f.kind = "json" /\ f.action = "find_duplicate_images_result") THEN idle
        ELSE IF ~f.hasData THEN [idle EXCEPT !.threw = TRUE]
        ELSE LET duplicateImages == IF f.dups.present THEN f.dups.list ELSE <<>>
             IN  IF Len(duplicateImages) > 0
                 THEN LET r == sortImageElements(f.sorted, duplicateImages, ulp, lis, sorted)
                      IN  [items |-> r.items, isPageSorted |-> r.isPageSorted, toast |-> "found",
                           reset |-> FALSE, applied |-> ~r.threw, threw |-> r.threw]
                 ELSE IF sorted
                 THEN LET r == sortImageElements(Present(original), <<>>, ulp, lis, sorted)
                      IN  [items |-> r.items, isPageSorted |-> r.isPageSorted,
                           toast |-> "no_duplicates",
                           reset |-> TRUE, applied |-> FALSE, threw |-> FALSE]
                 ELSE [idle EXCEPT !.toast = "no_duplicates"]

\* a listener that takes a result only as the answer to a request: it drops a
\* result that arrives when the handler before it was not a request
resultListenerAwaitsRequest(f, ulp, lis, sorted, original) ==
    LET idle == noResult(lis, sorted)
    IN  IF ~(f.kind = "json" /\ f.action = "find_duplicate_images_result") THEN idle
        ELSE IF ~(last.h = "click" /\ last.out.action = "find_duplicate_images") THEN idle
        ELSE IF ~f.hasData THEN [idle EXCEPT !.threw = TRUE]
        ELSE LET duplicateImages == IF f.dups.present THEN f.dups.list ELSE <<>>
             IN  IF Len(duplicateImages) > 0
                 THEN LET r == sortImageElements(f.sorted, duplicateImages, ulp, lis, sorted)
                      IN  [items |-> r.items, isPageSorted |-> r.isPageSorted, toast |-> "found",
                           reset |-> FALSE, applied |-> ~r.threw, threw |-> r.threw]
                 ELSE IF sorted
                 THEN LET r == sortImageElements(Present(original), <<>>, ulp, lis, sorted)
                      IN  [items |-> r.items, isPageSorted |-> FALSE, toast |-> "no_duplicates",
                           reset |-> TRUE, applied |-> FALSE, threw |-> FALSE]
                 ELSE [idle EXCEPT !.toast = "no_duplicates"]

\* what the find-duplicates script's message listener does with a frame, on
\* the document (ulp, lis) with the script's isPageSorted and originalSortOrder
\* a listener that takes every JSON frame with data for a result
resultListenerNoFilter(f, ulp, lis, sorted, original) ==
    LET idle == noResult(lis, sorted)
    IN  IF f.kind # "json" THEN idle
        ELSE IF ~f.hasData THEN [idle EXCEPT !.threw = TRUE]
        ELSE LET duplicateImages == IF f.dups.present THEN f.dups.list ELSE <<>>
             IN  IF Len(duplicateImages) > 0
                 THEN foundResult(sortImageElements(f.sorted, duplicateImages, ulp, lis, sorted))
                 ELSE IF sorted
                 THEN restoredResult(sortImageElements(Present(original), <<>>, ulp, lis, sorted))
                 ELSE [idle EXCEPT !.toast = "no_duplicates"]

resultListener(f, ulp, lis, sorted, original) ==
    LET idle == noResult(lis, sorted)
    IN  IF ~(f.kind = "json" /\ f.action = "find_duplicate_images_result") THEN idle
        ELSE IF ~f.hasData THEN [idle EXCEPT !.threw = TRUE]
        ELSE LET duplicateImages == IF f.dups.present THEN f.dups.list ELSE <<>>
             IN  IF Len(duplicateImages) > 0
                 THEN foundResult(sortImageElements(f.sorted, duplicateImages, ulp, lis, sorted))
                 ELSE IF sorted
                 THEN restoredResult(sortImageElements(Present(original), <<>>, ulp, lis, sorted))
                 ELSE [idle EXCEPT !.toast = "no_duplicates"]

VersionRequest == [NoFrame EXCEPT !.action = "version_request", !.delivered = TRUE]

\* a "message" event: the client's listener, then the find-duplicates script's
\* listener if it has been registered
MessageEvent(f) ==
    /\ loaded /\ ~failing
    /\ readyState = "OPEN"
    /\ \E c \in {clientListener(f)} :
       \E g \in {IF fdPc = "waiting" THEN noResult(items, isPageSorted)
                 ELSE resultListener(f, ul, items, isPageSorted, originalSortOrder)} :
           /\ loaded' = ~c.reload
           /\ versionRequested' = (versionRequested \/ c.request)
           /\ versionDecided' = (versionDecided \/ c.outcome # "none")
           /\ exposed' = (exposed \/ c.expose)
           /\ winSocketState' = IF c.expose /\ ~exposed THEN socketState ELSE winSocketState
           /\ items' = g.items
           /\ isPageSorted' = g.isPageSorted
           /\ last' = [Ran("message") EXCEPT
                          !.frame = c.frame,
                          !.outcome = c.outcome,
                          !.exposedNow = c.expose,
                          !.toast = IF c.toast # "none" THEN c.toast ELSE g.toast,
                          !.connOpen = socketState,
                          !.out = IF c.request THEN VersionRequest ELSE NoFrame,
                          !.reset = g.reset,
                          !.applied = g.applied,
                          !.threw = g.threw]
    /\ UNCHANGED <<channelVars, documentVars, fdPc, imageType, originalSortOrder, ul, firstItems,
                   capturedCatalog, widgetVars>>

\* ------------------------------------------- the find-duplicates script
\* the document is parsed while the scripts run
BodyAvailable ==
    /\ loaded /\ ~failing
    /\ ~body
    /\ body' = TRUE
    /\ last' = Ran("body")
    /\ UNCHANGED <<negotiationVars, loaded, channelVars, windowVars, header, pathname, fdPc, imageType,
                   galleryVars, widgetVars>>

HeaderAvailable ==
    /\ loaded /\ ~failing
    /\ body /\ ~header
    /\ header' = TRUE
    /\ last' = Ran("header")
    /\ UNCHANGED <<negotiationVars, loaded, channelVars, windowVars, body, pathname, fdPc, imageType,
                   galleryVars, widgetVars>>

imageTypeOf(path) ==
    IF path = "/images/backdrops" THEN "backdrop"
    ELSE IF path = "/images/posters" THEN "poster"
    ELSE IF path = "/images/logos" THEN "logo"
    ELSE IF path = "/images/profiles" THEN "profile"
    ELSE "null"

\* inputBox.value = slider.value = minSimilarityThreshold * 100
widgetStart(threshold) == ToStr(Times100Rounded(threshold))

\* a startup wait that looks at document.body only
StartupPollNoGate ==
    /\ loaded /\ ~failing
    /\ fdPc = "waiting"
    /\ body
    /\ imageType' = imageTypeOf(pathname)
    /\ minSimilarityThreshold' = NumberThreshold(imageType' = "profile")
    /\ fdPc' = IF header THEN "ready" ELSE "started"
    /\ inputBox' = IF header THEN widgetStart(minSimilarityThreshold') ELSE inputBox
    /\ slider' = IF header THEN widgetStart(minSimilarityThreshold') ELSE slider
    /\ last' = Ran("startup")
    /\ UNCHANGED <<negotiationVars, loaded, channelVars, windowVars, documentVars, galleryVars>>

\* the startup wait ends: the script's state is created, the message listener
\* is registered and injectUI runs, to its end if the header is there already
StartupPoll ==
    /\ loaded /\ ~failing
    /\ fdPc = "waiting"
    /\ winSocketState /\ body
    /\ imageType' = imageTypeOf(pathname)
    /\ minSimilarityThreshold' = NumberThreshold(imageType' = "profile")
    /\ fdPc' = IF header THEN "ready" ELSE "started"
    /\ inputBox' = IF header THEN widgetStart(minSimilarityThreshold') ELSE inputBox
    /\ slider' = IF header THEN widgetStart(minSimilarityThreshold') ELSE slider
    /\ last' = Ran("startup")
    /\ UNCHANGED <<negotiationVars, loaded, channelVars, windowVars, documentVars, galleryVars>>

\* an injectUI that looks for the header once, when the script starts, and
\* gives up if it is not there
InjectUIPollGivesUp ==
    /\ loaded /\ ~failing
    /\ fdPc = "started" /\ last.h = "startup"
    /\ header
    /\ fdPc' = "ready"
    /\ inputBox' = widgetStart(minSimilarityThreshold)
    /\ slider' = widgetStart(minSimilarityThreshold)
    /\ last' = Ran("injectUI")
    /\ UNCHANGED <<negotiationVars, loaded, channelVars, windowVars, documentVars, imageType, galleryVars,
                   minSimilarityThreshold>>

\* injectUI's wait ends: slider, numeric box and button are created
InjectUIPoll ==
    /\ loaded /\ ~failing
    /\ fdPc = "started"
    /\ header
    /\ fdPc' = "ready"
    /\ inputBox' = widgetStart(minSimilarityThreshold)
    /\ slider' = widgetStart(minSimilarityThreshold)
    /\ last' = Ran("injectUI")
    /\ UNCHANGED <<negotiationVars, loaded, channelVars, windowVars, documentVars, imageType, galleryVars,
                   minSimilarityThreshold>>

\* a findDuplicateImages that clears isPageSorted without restoring the order
findDuplicateImagesNoReset ==
    IF ~winSocketState
    THEN /\ last' = [Ran("click") EXCEPT !.find = TRUE, !.connOpen = socketState,
                                         !.toast = "offline"]
         /\ UNCHANGED galleryVars
    ELSE LET images == getAllImagesFromCurrentPage(ul, items)
             frame  == [action |-> "find_duplicate_images", images |-> images,
                        imageType |-> imageType,
                        minSimilarityThreshold |-> minSimilarityThreshold,
                        delivered |-> readyState = "OPEN"]
         IN  /\ isPageSorted' = FALSE
             /\ originalSortOrder' = images
             /\ capturedCatalog' = IF capturedCatalog.present THEN capturedCatalog
                                   ELSE Present(images)
             /\ last' = [Ran("click") EXCEPT
                            !.find = TRUE,
                            !.connOpen = socketState,
                            !.reset = isPageSorted,
                            !.out = IF images # <<>> THEN frame ELSE NoFrame]
             /\ UNCHANGED <<ul, items, firstItems>>

\* a findDuplicateImages that gathers the filenames before it resets the page
findDuplicateImagesCaptureFirst ==
    IF ~winSocketState
    THEN /\ last' = [Ran("click") EXCEPT !.find = TRUE, !.connOpen = socketState,
                                         !.toast = "offline"]
         /\ UNCHANGED galleryVars
    ELSE LET images == getAllImagesFromCurrentPage(ul, items)
             r      == IF isPageSorted
                       THEN sortImageElements(Present(originalSortOrder), <<>>, ul, items, isPageSorted)
                       ELSE [items |-> items, isPageSorted |-> FALSE, threw |-> FALSE]
             frame  == [action |-> "find_duplicate_images", images |-> images,
                        imageType |-> imageType,
                        minSimilarityThreshold |-> minSimilarityThreshold,
                        delivered |-> readyState = "OPEN"]
             throws == readyState = "CONNECTING"
         IN  /\ items' = r.items
             /\ isPageSorted' = FALSE
             /\ originalSortOrder' = IF isPageSorted THEN originalSortOrder ELSE images
             /\ capturedCatalog' = IF capturedCatalog.present THEN capturedCatalog
                                   ELSE Present(images)
             /\ last' = [Ran("click") EXCEPT
                            !.find = TRUE,
                            !.connOpen = socketState,
                            !.reset = isPageSorted,
                            !.out = IF images # <<>> /\ ~throws THEN frame ELSE NoFrame,
                            !.toast = IF images # <<>> /\ throws THEN "send_failed" ELSE "none"]
             /\ UNCHANGED <<ul, firstItems>>

\* a request that is sent without looking at the length of the catalog
findDuplicateImagesSendsEmpty ==
    IF ~winSocketState
    THEN /\ last' = [Ran("click") EXCEPT !.find = TRUE, !.connOpen = socketState,
                                         !.toast = "offline"]
         /\ UNCHANGED galleryVars
    ELSE LET r      == IF isPageSorted
                       THEN sortImageElements(Present(originalSortOrder), <<>>, ul, items, isPageSorted)
                       ELSE [items |-> items, isPageSorted |-> FALSE, threw |-> FALSE]
             images == getAllImagesFromCurrentPage(ul, r.items)
             frame  == [action |-> "find_duplicate_images", images |-> images,
                        imageType |-> imageType,
                        minSimilarityThreshold |-> minSimilarityThreshold,
                        delivered |-> readyState = "OPEN"]
             throws == readyState = "CONNECTING"
         IN  /\ items' = r.items
             /\ isPageSorted' = FALSE
             /\ originalSortOrder' = images
             /\ capturedCatalog' = IF capturedCatalog.present THEN capturedCatalog
                                   ELSE Present(images)
             /\ last' = [Ran("click") EXCEPT
                            !.find = TRUE,
                            !.connOpen = socketState,
                            !.reset = isPageSorted,
                            !.out = IF ~throws THEN frame ELSE NoFrame,
                            !.toast = IF throws THEN "send_failed" ELSE "none"]
             /\ UNCHANGED <<ul, firstItems>>

\* findDuplicateImages(), called by the button's click listener
findDuplicateImages ==
    IF ~winSocketState
    THEN /\ last' = [Ran("click") EXCEPT !.find = TRUE, !.connOpen = socketState,
                                         !.toast = "offline"]
         /\ UNCHANGED galleryVars
    ELSE LET r      == IF isPageSorted
                       THEN sortImageElements(Present(originalSortOrder), <<>>, ul, items, isPageSorted)
                       ELSE [items |-> items, isPageSorted |-> FALSE, threw |-> FALSE]
             images == getAllImagesFromCurrentPage(ul, r.items)
             frame  == [action |-> "find_duplicate_images", images |-> images,
                        imageType |-> imageType,
                        minSimilarityThreshold |-> minSimilarityThreshold,
                        delivered |-> readyState = "OPEN"]
             throws == readyState = "CONNECTING"
         IN  /\ items' = r.items
             /\ isPageSorted' = FALSE
             /\ originalSortOrder' = images
             /\ capturedCatalog' = IF capturedCatalog.present THEN capturedCatalog
                                   ELSE Present(images)
             /\ last' = [Ran("click") EXCEPT
                            !.find = TRUE,
                            !.connOpen = socketState,
                            !.reset = isPageSorted,
                            !.out = IF images # <<>> /\ ~throws THEN frame ELSE NoFrame,
                            !.toast = IF images # <<>> /\ throws THEN "send_failed" ELSE "none"]
             /\ UNCHANGED <<ul, firstItems>>

\* the "Find Duplicates" button's click listener
ButtonClick ==
    /\ loaded /\ ~failing
    /\ fdPc = "ready"
    /\ IF ul /\ items # <<>> /\ items[1].id = "no_results"
       THEN /\ last' = [Ran("click") EXCEPT !.connOpen = socketState, !.toast = "no_images"]
            /\ UNCHANGED galleryVars
       ELSE findDuplicateImages
    /\ UNCHANGED <<negotiationVars, loaded, channelVars, windowVars, documentVars, fdPc, imageType, widgetVars>>

\* ---------------------------------------------------- the threshold widgets
\* slider.value = n on <input type="range" min="1" max="100" step="1">
sliderSet(n) == ToStr(Max(SLIDER_MIN, Min(n, SLIDER_MAX)))

NaNThreshold == [type |-> "string", text |-> <<"N", "a", "N">>]

\* what a step button writes for val = parseInt(inputBox.value, 10) -+ 1; a NaN
\* empties the numeric box and leaves the slider at its default position
stepWrite(r, val) ==
    /\ inputBox' = IF r.nan THEN <<>> ELSE ToStr(val)
    /\ slider' = IF r.nan THEN sliderSet(51) ELSE sliderSet(val)
    /\ minSimilarityThreshold' = IF r.nan THEN NaNThreshold ELSE ToFixed2(val)

\* an input listener that does not clamp the parsed value
InputBoxInputNoClamp(raw) ==
    /\ loaded /\ ~failing
    /\ fdPc = "ready"
    /\ LET trimmed == Trim(raw)
       IN  IF ~IsDigitsOnly(trimmed)
           THEN LET fallback == Times100Rounded(minSimilarityThreshold)
                IN  /\ inputBox' = ToStr(fallback)
                    /\ slider' = sliderSet(fallback)
                    /\ UNCHANGED minSimilarityThreshold
           ELSE LET val == ParseInt(trimmed).val
                IN  /\ inputBox' = ToStr(val)
                    /\ slider' = sliderSet(val)
                    /\ minSimilarityThreshold' = ToFixed2(val)
    /\ last' = [Ran("boxInput") EXCEPT !.raw = raw]
    /\ UNCHANGED <<negotiationVars, loaded, channelVars, windowVars, documentVars, fdPc, imageType, galleryVars>>

\* inputBox "input" listener, the box holding raw
InputBoxInput(raw) ==
    /\ loaded /\ ~failing
    /\ fdPc = "ready"
    /\ LET trimmed == Trim(raw)
       IN  IF ~IsDigitsOnly(trimmed)
           THEN LET fallback == Times100Rounded(minSimilarityThreshold)
                IN  /\ inputBox' = ToStr(fallback)
                    /\ slider' = sliderSet(fallback)
                    /\ UNCHANGED minSimilarityThreshold
           ELSE LET val == Min(Max(ParseInt(trimmed).val, 1), 100)
                IN  /\ inputBox' = ToStr(val)
                    /\ slider' = sliderSet(val)
                    /\ minSimilarityThreshold' = ToFixed2(val)
    /\ last' = [Ran("boxInput") EXCEPT !.raw = raw]
    /\ UNCHANGED <<negotiationVars, loaded, channelVars, windowVars, documentVars, fdPc, imageType, galleryVars>>

\* a slider listener that does not write the numeric box
SliderInputNoMirror(v) ==
    /\ loaded /\ ~failing
    /\ fdPc = "ready"
    /\ slider' = sliderSet(v)
    /\ minSimilarityThreshold' = ToFixed2(ParseInt(slider').val)
    /\ UNCHANGED inputBox
    /\ last' = Ran("sliderInput")
    /\ UNCHANGED <<negotiationVars, loaded, channelVars, windowVars, documentVars, fdPc, imageType, galleryVars>>

\* slider "input" listener, the slider moved to position v
SliderInput(v) ==
    /\ loaded /\ ~failing
    /\ fdPc = "ready"
    /\ slider' = sliderSet(v)
    /\ LET val == ParseInt(slider').val
       IN  /\ inputBox' = ToStr(val)
           /\ minSimilarityThreshold' = ToFixed2(val)
    /\ last' = Ran("sliderInput")
    /\ UNCHANGED <<negotiationVars, loaded, channelVars, windowVars, documentVars, fdPc, imageType, galleryVars>>

\* minus button "click" listener
MinusClick ==
    /\ loaded /\ ~failing
    /\ fdPc = "ready"
    /\ LET r == ParseInt(inputBox)
       IN  stepWrite(r, Max(r.val - 1, 1))
    /\ last' = Ran("minus")
    /\ UNCHANGED <<negotiationVars, loaded, channelVars, windowVars, documentVars, fdPc, imageType, galleryVars>>

\* plus button "click" listener
PlusClick ==
    /\ loaded /\ ~failing
    /\ fdPc = "ready"
    /\ LET r == ParseInt(inputBox)
       IN  stepWrite(r, Min(r.val + 1, 100))
    /\ last' = Ran("plus")
    /\ UNCHANGED <<negotiationVars, loaded, channelVars, windowVars, documentVars, fdPc, imageType, galleryVars>>

\* ---------------------------------------------------------- specifications
ChannelNext ==
    \/ OpenEvent
    \/ ErrorEvent
    \/ CloseEvent
    \/ \E f \in InboundFrames : MessageEvent(f)

FeatureNext ==
    \/ BodyAvailable
    \/ HeaderAvailable
    \/ StartupPoll
    \/ InjectUIPoll
    \/ ButtonClick

Next == ChannelNext \/ FeatureNext

\* the session of one page load: channel, version check, startup, requests and
\* results. The threshold stays as the script sets it at startup.
Spec == Init /\ [][Next]_vars

\* a state of the session in which the find-duplicates script has injected its
\* controls and the channel is open
ReadyWith(pages, paths) ==
    /\ loaded = TRUE
    /\ readyState = "OPEN"
    /\ failing = FALSE
    /\ socketState = TRUE
    /\ everOpen = TRUE
    /\ lostWarnings = 0
    /\ versionRequested = TRUE
    /\ versionDecided = TRUE
    /\ exposed = TRUE
    /\ winSocketState = TRUE
    /\ body = TRUE
    /\ header = TRUE
    /\ pathname \in paths
    /\ fdPc = "ready"
    /\ imageType = imageTypeOf(pathname)
    /\ isPageSorted = FALSE
    /\ originalSortOrder = <<>>
    /\ \E p \in pages : ul = p.ul /\ items = p.items /\ firstItems = p.items
    /\ capturedCatalog = NoCatalog
    /\ minSimilarityThreshold = NumberThreshold(imageType = "profile")
    /\ inputBox = widgetStart(minSimilarityThreshold)
    /\ slider = widgetStart(minSimilarityThreshold)
    /\ last = Ran("injectUI")

\* the reconciler under every result within the bounds, and the requests
GalleryInit == ReadyWith(GalleryPages, {"/images/backdrops"})

GalleryNext ==
    \/ \E f \in ResultFrames : MessageEvent(f)
    \/ ButtonClick

SpecGallery == GalleryInit /\ [][GalleryNext]_vars

\* the threshold widgets and the requests that carry the threshold
ThresholdInit == ReadyWith({CHOOSE p \in Pages : Len(p.items) = 4}, Paths)

ThresholdNext ==
    \/ \E raw \in RawInputs : InputBoxInput(raw)
    \/ \E v \in SLIDER_MIN..SLIDER_MAX : SliderInput(v)
    \/ MinusClick
    \/ PlusClick
    \/ ButtonClick

SpecThreshold == ThresholdInit /\ [][ThresholdNext]_vars

\* the session with its timers: the two polling loops re-arm a 100 ms timer
\* until their condition holds, and the browser fires close in the task that
\* fired error
PollingFairness ==
    /\ WF_vars(StartupPoll)
    /\ WF_vars(InjectUIPoll)
    /\ WF_vars(failing /\ CloseEvent)

\* one page load of the four-item page: the frames of the handshake, a toast,
\* a result with duplicates and one without
PollingInit == InitWith({CHOOSE p \in Pages : Len(p.items) = 4}, {"/images/backdrops"})

PollingFrames ==
    RawFrames \cup {ToastFrame}
        \cup {f \in VersionFrames : f.token \in {<<"1">>, <<"2">>}}
        \cup {ResultFrame(Present(<<"a.jpg">>), Present(<<"c.jpg", "a.jpg", "b.jpg">>)),
              ResultFrame(Present(<<>>), Absent)}

PollingNext ==
    \/ OpenEvent
    \/ ErrorEvent
    \/ CloseEvent
    \/ \E f \in PollingFrames : MessageEvent(f)
    \/ BodyAvailable
    \/ HeaderAvailable
    \/ StartupPoll
    \/ InjectUIPoll
    \/ ButtonClick

SpecPolling == PollingInit /\ [][PollingNext]_vars /\ PollingFairness

\* the states SpecGallery and SpecThreshold start from are states of the session
ReadyReachable == ~(fdPc = "ready" /\ readyState = "OPEN" /\ last.h = "injectUI"
                    /\ isPageSorted = FALSE /\ originalSortOrder = <<>>)

\* ------------------------------------------------------------------ claims
ItemNames(lis) == [i \in 1..Len(lis) |-> lis[i].name]

Highlighted(lis) == {i \in 1..Len(lis) : lis[i].hl}

NoRepeats(s) == \A i, j \in 1..Len(s) : i # j => s[i] # s[j]

\* the position of the first list item that carries the name
FirstItemOf(lis, name) == CHOOSE i \in 1..Len(lis) : lis[i].name = name /\ \A j \in 1..(i - 1) : lis[j].name # name

\* C1: whenever findDuplicateImages is invoked while the channel's socketState
\* is not open, no frame is handed to the socket and the offline toast is shown.
C1_OfflineRequestRejected ==
    (last.h = "click" /\ last.find /\ ~last.connOpen)
        => (last.out.action = "none" /\ last.toast = "offline")

\* C2: the catalog a click captures has no repeated filename, holds exactly the
\* filenames of the page's items, and lists them in the order of their first
\* occurrence on the page.
C2_CatalogUniqueFirstSeen ==
    (last.h = "click" /\ last.find /\ winSocketState) =>
        LET images == originalSortOrder
            shown  == IF ul THEN Range(ItemNames(items)) \ {""} ELSE {}
        IN  /\ NoRepeats(images)
            /\ Range(images) = shown
            /\ \A i, j \in 1..Len(images) :
                   i < j => FirstItemOf(items, images[i]) < FirstItemOf(items, images[j])
            /\ last.out.action = "find_duplicate_images" => last.out.images = images

C2_Witness ==
    /\ last.h = "click" /\ last.out.action = "find_duplicate_images"
    /\ Len(originalSortOrder) = 2
    /\ \E i, j \in 1..Len(items) : i < j /\ items[i].name = items[j].name /\ items[i].name # ""

\* C3: on every page the session reaches, sortImageElements applied twice with
\* the same (sortedImages, duplicateImages) leaves the item order, the
\* highlights and isPageSorted as one application leaves them.
C3_SortIdempotent ==
    \A srt \in SortedInputs \cup SessionSorted, d \in DupInputs \cup SessionDups :
        \A once \in {sortImageElements(srt, d.list, ul, items, isPageSorted)} :
            \A twice \in {sortImageElements(srt, d.list, ul, once.items, once.isPageSorted)} :
                /\ twice.items = once.items
                /\ twice.isPageSorted = once.isPageSorted

\* a result has been applied: the page is reordered and an item is highlighted
C3_Witness ==
    /\ last.h = "message" /\ last.applied
    /\ isPageSorted
    /\ ItemNames(items) # ItemNames(firstItems)
    /\ Highlighted(items) # {}

\* C4: once a catalog has been captured, a reset, whatever results were applied
\* before it, leaves a page whose catalog is the captured one.
C4_ResetRestoresCatalog ==
    (last.reset /\ capturedCatalog.present)
        => getAllImagesFromCurrentPage(ul, items) = capturedCatalog.list

C4_Witness ==
    /\ last.h = "message" /\ last.reset
    /\ capturedCatalog.present /\ Len(capturedCatalog.list) >= 2
    /\ ~isPageSorted

\* the end-to-end page [a, b, a, c] and the service's answer to it
E2EItems == <<Li("i1", "a.jpg", TRUE), Li("i2", "b.jpg", TRUE),
              Li("i3", "a.jpg", TRUE), Li("i4", "c.jpg", TRUE)>>

E2EFrame == ResultFrame(Present(<<"a.jpg">>), Present(<<"c.jpg", "a.jpg", "b.jpg">>))

\* the answer arrives on the captured, unsorted end-to-end page
E2EResult ==
    /\ items = E2EItems /\ ~isPageSorted
    /\ originalSortOrder = <<"a.jpg", "b.jpg", "c.jpg">>
    /\ fdPc # "waiting"
    /\ MessageEvent(E2EFrame)

\* the click that captures the end-to-end page
E2ECapture ==
    /\ items = E2EItems /\ ~isPageSorted
    /\ ButtonClick

\* C5 as stated: capture yields [a, b, c], and after the answer the list items
\* are, in order, c.jpg, a.jpg, b.jpg, one of them highlighted.
C5_AsStated ==
    [][ /\ E2ECapture => last'.out.images = <<"a.jpg", "b.jpg", "c.jpg">>
        /\ E2EResult => /\ ItemNames(items') = <<"c.jpg", "a.jpg", "b.jpg">>
                        /\ Cardinality(Highlighted(items')) = 1 ]_vars

\* C5, amended: capture yields [a, b, c], and after the answer the list items
\* are, in order, c.jpg, a.jpg, a.jpg, b.jpg (both a.jpg items kept, in their
\* page order), exactly the two a.jpg items highlighted.
C5_EndToEnd ==
    [][ /\ E2ECapture => last'.out.images = <<"a.jpg", "b.jpg", "c.jpg">>
        /\ E2EResult => /\ ItemNames(items') = <<"c.jpg", "a.jpg", "a.jpg", "b.jpg">>
                        /\ [i \in 1..4 |-> items'[i].id] = <<"i4", "i1", "i3", "i2">>
                        /\ Highlighted(items') = {2, 3}
                        /\ isPageSorted' ]_vars

C5_Witness ==
    /\ firstItems = E2EItems
    /\ last.h = "message" /\ last.applied /\ last.toast = "found"
    /\ capturedCatalog = Present(<<"a.jpg", "b.jpg", "c.jpg">>)
    /\ ItemNames(items) = <<"c.jpg", "a.jpg", "a.jpg", "b.jpg">>
    /\ Highlighted(items) = {2, 3}

VersionFrame(token) == Frame("json", "", "version_result", token, TRUE, Absent, Absent)

\* C6: the handler of a version_result frame with data R and local version L
\* follows the decision table: R = L exposes the namespace and shows no toast;
\* L > R shows the server-update toast; L < R shows the userscripts-update
\* toast; an R that is no number shows the error toast; only R = L exposes the
\* namespace.
C6_VersionTable ==
    [][ last'.frame = "version_result" => \A t \in VersionTokens :
          MessageEvent(VersionFrame(t)) =>
            \A R \in {ParseInt(t)} :
              /\ (~R.nan /\ R.val = CLIENT_VERSION) =>
                     /\ last'.outcome = "Compatible" /\ last'.toast = "none"
                     /\ last'.exposedNow /\ exposed'
              /\ (~R.nan /\ CLIENT_VERSION > R.val) =>
                     /\ last'.outcome = "ServerOutdated" /\ last'.toast = "server_update"
                     /\ ~last'.exposedNow /\ exposed' = exposed
              /\ (~R.nan /\ CLIENT_VERSION < R.val) =>
                     /\ last'.outcome = "ClientOutdated" /\ last'.toast = "userscripts_update"
                     /\ ~last'.exposedNow /\ exposed' = exposed
              /\ R.nan =>
                     /\ last'.outcome = "Undetermined" /\ last'.toast = "version_undetermined"
                     /\ ~last'.exposedNow /\ exposed' = exposed
              /\ t = <<"1">> => last'.outcome = "Compatible"
              /\ t = <<"0">> => last'.outcome = "ServerOutdated"
              /\ t = <<"2">> => last'.outcome = "ClientOutdated"
              /\ t = <<"a", "b", "c">> => last'.outcome = "Undetermined" ]_vars

C6_Witness ==
    /\ last.h = "message" /\ last.frame = "version_result"
    /\ last.outcome = "ClientOutdated" /\ last.toast = "userscripts_update"
    /\ ~exposed

\* the threshold is the number, or the numeric string, v / 100
ThresholdIs(t, v) ==
    /\ t.type \in {"number", "string"}
    /\ Len(t.text) = 4 /\ t.text[2] = "."
    /\ {t.text[1], t.text[3], t.text[4]} \subseteq Digits
    /\ DigitVal(t.text[1]) * 100 + DigitVal(t.text[3]) * 10 + DigitVal(t.text[4]) = v

\* C7: once the widgets exist, after any widget events the numeric box and the
\* slider show the same integer v, 1 <= v <= 100, and minSimilarityThreshold
\* is v / 100.
C7_WidgetsInSync ==
    fdPc = "ready" =>
        \E v \in 1..100 :
            /\ inputBox = ToStr(v)
            /\ slider = ToStr(v)
            /\ ThresholdIs(minSimilarityThreshold, v)

C7_Witness ==
    /\ last.h = "sliderInput"
    /\ inputBox = <<"4", "2">> /\ slider = <<"4", "2">>
    /\ minSimilarityThreshold.text = <<"0", ".", "4", "2">>

\* C8: a digit-only entry above 100 stores 100 in the box, the slider and the
\* threshold; an entry that is not digit-only leaves the threshold as it was
\* and puts the last valid value back in both widgets; no request carries a
\* threshold that is NaN or outside [0.01, 1.00].
C8_BoxInputClampsOrReverts ==
    [][ /\ last'.h = "boxInput" => \A raw \in RawInputs :
              InputBoxInput(raw) =>
                /\ (IsDigitsOnly(raw) /\ DigitsValue(raw) > 100) =>
                       /\ inputBox' = <<"1", "0", "0">> /\ slider' = <<"1", "0", "0">>
                       /\ ThresholdIs(minSimilarityThreshold', 100)
                /\ ~IsDigitsOnly(raw) =>
                       /\ minSimilarityThreshold' = minSimilarityThreshold
                       /\ inputBox' = slider /\ slider' = slider
        /\ last'.out.action = "find_duplicate_images" =>
              \E v \in 1..100 : ThresholdIs(last'.out.minSimilarityThreshold, v) ]_vars

C8_Witness ==
    /\ last.h = "boxInput" /\ last.raw = <<"1", "5", "0">>
    /\ inputBox = <<"1", "0", "0">> /\ slider = <<"1", "0", "0">>
    /\ minSimilarityThreshold.text = <<"1", ".", "0", "0">>

\* C9: socketState starts false, turns true only in the open listener, never
\* turns true again once it has been true and is false, and the socket never
\* goes back to connecting (one socket, no reconnect).
C9_NoReopen ==
    /\ ~socketState
    /\ [][ /\ (~socketState /\ socketState') => (last'.h = "open" /\ ~everOpen)
           /\ (everOpen /\ ~socketState) => ~socketState'
           /\ readyState # "CONNECTING" => readyState' # "CONNECTING" ]_vars

C9_Witness ==
    /\ everOpen /\ ~socketState
    /\ readyState = "CLOSED"
    /\ last.h \notin {"close", "error"}

\* C10: a close event logs the "Lost connection" warning exactly when the
\* channel had been open before it, and the warning is logged at most once.
C10_LostWarning ==
    /\ last.h = "close" => (last.warn = "lost" <=> everOpen)
    /\ lostWarnings <= 1
    /\ lostWarnings = 1 => everOpen

C10_Witness ==
    /\ last.h = "close" /\ last.warn = "lost"
    /\ lostWarnings = 1

Mismatch == {"ServerOutdated", "ClientOutdated"}

\* C11 as stated: on one connection at most one version_request is sent, and
\* once a version_result has been given its outcome no later frame is given one.
C11_AsStated ==
    [][ /\ versionRequested => last'.out.action # "version_request"
        /\ versionDecided => last'.outcome = "none" ]_vars

\* C11, amended: the client keeps no handshake state. Every "connected" frame,
\* and no other frame, sends one version_request; every version_result frame
\* is given an outcome, whatever was decided before; what happens once is the
\* exposure: after the first Compatible outcome the namespace stays exposed and
\* the exposed values are not written again.
C11_PerFrameNegotiation ==
    [][ last'.h = "message" =>
          /\ (last'.frame = "connected") <=> (last'.out.action = "version_request")
          /\ (last'.frame = "version_result") <=>
                 (last'.outcome \in {"Compatible", "Undetermined"} \cup Mismatch)
          /\ exposed' = (exposed \/ last'.outcome = "Compatible")
          /\ exposed => winSocketState' = winSocketState ]_vars

\* a second outcome on one connection: a mismatch after the namespace was exposed
C11_Witness ==
    /\ last.h = "message" /\ last.frame = "version_result"
    /\ last.outcome = "ServerOutdated"
    /\ exposed /\ versionRequested /\ versionDecided

\* C12: a find_duplicate_images request is sent, and the find-duplicates
\* script is past its startup wait, only after the channel was open and a
\* version_result equal to the client's version exposed the namespace.
C12_GatedByCompatible ==
    /\ last.out.action = "find_duplicate_images" => (exposed /\ versionDecided /\ everOpen)
    /\ fdPc # "waiting" => (exposed /\ versionDecided /\ everOpen)
    /\ (last.h = "message" /\ last.outcome # "none" /\ last.outcome # "Compatible" /\ ~exposed)
           => (fdPc = "waiting" /\ ~winSocketState)

C12_Witness ==
    /\ last.h = "click" /\ last.out.action = "find_duplicate_images" /\ last.out.delivered
    /\ exposed /\ readyState = "OPEN"

\* C13 as stated: after a ServerOutdated or ClientOutdated outcome the user is
\* warned, the channel stays open, and the find-duplicates script can become
\* active: either it is, or the namespace state its startup waits for is there.
C13_AsStated ==
    (last.h = "message" /\ last.outcome \in Mismatch) =>
        /\ last.toast \in {"server_update", "userscripts_update"}
        /\ readyState = "OPEN" /\ socketState
        /\ fdPc = "waiting" => winSocketState

\* C13, amended: after a ServerOutdated or ClientOutdated outcome the user is
\* warned by the matching toast, the channel stays open and goes on handling
\* frames, and the outcome exposes nothing: unless a version_result equal to
\* the client's version was received, the find-duplicates script stays in its
\* startup wait.
C13_MismatchKeepsChannel ==
    (last.h = "message" /\ last.outcome \in Mismatch) =>
        /\ last.toast = (IF last.outcome = "ServerOutdated" THEN "server_update"
                         ELSE "userscripts_update")
        /\ readyState = "OPEN" /\ socketState /\ loaded /\ ~failing
        /\ ~last.exposedNow
        /\ ~exposed => (fdPc = "waiting" /\ ~winSocketState)

C13_Witness ==
    /\ last.h = "message" /\ last.outcome = "ServerOutdated"
    /\ ~exposed /\ body /\ header
    /\ fdPc = "waiting"

UnknownFrames == {f \in RawFrames : f.text \notin {"reload", "connected"}} \cup {OtherFrame}

\* C14: a frame that fails JSON.parse is handled by its text as a raw command,
\* never by an action; a frame that is neither a known action nor "reload" nor
\* "connected" changes neither the channel, the version outcome, the exposed
\* namespace, isPageSorted, the page nor originalSortOrder, sends nothing,
\* throws nothing, and leaves the listener able to handle the next frame.
C14_UnknownFrameDiscarded ==
    [][ last'.h = "message" =>
          /\ \A f \in RawFrames : MessageEvent(f) =>
                 /\ last'.frame = (IF f.text \in {"reload", "connected"} THEN f.text ELSE "unexpected")
                 /\ last'.outcome = "none" /\ ~last'.applied /\ ~last'.reset
          /\ \A f \in UnknownFrames : MessageEvent(f) =>
                 /\ last'.frame \in {"unexpected", "unrecognized"}
                 /\ UNCHANGED <<loaded, channelVars, negotiationVars, windowVars, fdPc,
                                galleryVars, widgetVars>>
                 /\ last'.out = NoFrame /\ last'.toast = "none" /\ ~last'.threw
                 /\ loaded' /\ ~failing' /\ readyState' = "OPEN" ]_vars

C14_Witness ==
    /\ last.h = "message" /\ last.frame = "unexpected"
    /\ isPageSorted /\ Highlighted(items) # {}
    /\ readyState = "OPEN"

NoDuplicatesFrames == {f \in ResultFrames : f.hasData /\ (~f.dups.present \/ f.dups.list = <<>>)}

\* the position sortImageElements gives a name of the list: its last one
LastPos(list, name) == CHOOSE i \in 1..Len(list) : list[i] = name /\ \A j \in (i + 1)..Len(list) : list[j] # name

IndexOfId(lis, id) == CHOOSE i \in 1..Len(lis) : lis[i].id = id

\* after is before reordered by list: the same items; those named in list
\* first, by the position of their names; the others behind them, in the order
\* they had
ReorderedBy(before, after, list) ==
    /\ Len(after) = Len(before)
    /\ {after[i].id : i \in 1..Len(after)} = {before[i].id : i \in 1..Len(before)}
    /\ \A was \in {[i \in 1..Len(after) |-> IndexOfId(before, after[i].id)]} :
       \A pos \in {[i \in 1..Len(after) |->
                       IF after[i].name \in Range(list) THEN LastPos(list, after[i].name) ELSE 0]} :
           /\ \A i \in 1..Len(after) :
                  after[i].name = before[was[i]].name /\ after[i].info = before[was[i]].info
           /\ \A i, j \in 1..Len(after) :
                  /\ (pos[i] > 0 /\ pos[j] = 0) => i < j
                  /\ (pos[i] > 0 /\ pos[j] > 0 /\ pos[i] < pos[j]) => i < j
                  /\ (pos[i] = 0 /\ pos[j] = 0 /\ was[i] < was[j]) => i < j

\* C16: a result without duplicates leaves an unsorted page as it is; on a
\* sorted page it puts the items in the order of originalSortOrder, clears
\* every highlight and sets isPageSorted to false.
C16_NoDuplicatesPolicy ==
    /\ [](fdPc = "ready" =>
            \A f \in NoDuplicatesFrames :
                resultListener(f, ul, items, isPageSorted, originalSortOrder).toast = "no_duplicates")
    /\ [][ (last'.h = "message" /\ last'.toast = "no_duplicates") =>
             IF isPageSorted
             THEN /\ ~isPageSorted'
                  /\ Highlighted(items') = {}
                  /\ ReorderedBy(items, items', originalSortOrder)
                  /\ last'.reset
             ELSE /\ UNCHANGED <<isPageSorted, items>>
                  /\ ~last'.reset ]_vars

C16_Witness ==
    /\ last.h = "message" /\ last.reset /\ last.toast = "no_duplicates"
    /\ ~isPageSorted /\ Highlighted(items) = {}
    /\ originalSortOrder # <<>>

\* the result frames sortImageElements is called with and returns from
AppliedFrames == {f \in ResultFrames : f.hasData /\ f.dups.present /\ f.dups.list # <<>>
                                       /\ f.sorted.present}

\* C17: on every page the session reaches, sortImageElements puts the items
\* whose filename is in sortedImages first, by the position of the filename in
\* sortedImages, and every other item, an item without filename included,
\* behind them in the order they had; the page holds the same items as before.
C17_SortOrder ==
    \A srt \in SortedInputs \ {Absent}, d \in DupInputs :
        \A r \in {sortImageElements(srt, d.list, ul, items, isPageSorted)} :
            ReorderedBy(items, r.items, srt.list)

C17_Witness ==
    /\ last.h = "message" /\ last.applied
    /\ ItemNames(items) # ItemNames(firstItems)
    /\ \E i \in 1..Len(items) : items[i].name = ""
    /\ items[1].name = "a.jpg"

\* C18: on every page the session reaches, highlighted items included, after
\* sortImageElements(sortedImages, duplicates) an item with an info block is
\* highlighted exactly if its filename is among the duplicates, and
\* isPageSorted is true.
C18_HighlightIffDuplicate ==
    \A srt \in SortedInputs \ {Absent}, d \in DupInputs :
        \A r \in {sortImageElements(srt, d.list, ul, items, isPageSorted)} :
            /\ \A i \in 1..Len(r.items) :
                   r.items[i].hl <=> (r.items[i].info /\ r.items[i].name \in Range(d.list))
            /\ r.isPageSorted

\* a result has been applied on a page whose highlights were other ones
C18_Witness ==
    /\ last.h = "message" /\ last.applied /\ isPageSorted
    /\ \E i, j \in 1..Len(items) : items[i].hl /\ items[j].info /\ ~items[j].hl
    /\ ItemNames(items) = ItemNames(firstItems)

\* C19: requests and results are not matched. A click right after a request,
\* no result in between, sends another request; a result is applied when it
\* arrives, whether a request, several or none are unanswered, and the
\* highlights of the page are then those of that result.
C19_NoCorrelation ==
    /\ [](fdPc = "ready" =>
            \A f \in AppliedFrames :
                \A g \in {resultListener(f, ul, items, isPageSorted, originalSortOrder)} :
                    /\ g.applied /\ g.isPageSorted /\ g.toast = "found"
                    /\ {g.items[i].name : i \in Highlighted(g.items)}
                           = {items[i].name : i \in {k \in 1..Len(items) : items[k].info}}
                                 \cap Range(f.dups.list))
    /\ [][ (last.h = "click" /\ last.out.action = "find_duplicate_images" /\ ButtonClick)
              => (last'.out.action = "find_duplicate_images"
                  /\ last'.out.delivered = (readyState = "OPEN")) ]_vars

\* a result applied on a page no request was ever sent for
C19_Witness ==
    /\ last.h = "message" /\ last.applied
    /\ ~capturedCatalog.present /\ originalSortOrder = <<>>
    /\ Highlighted(items) # {}

\* the result frames without data, or with duplicates and no sorted_images
MalformedFrames == {f \in ResultFrames : ~f.hasData \/ (f.dups.present /\ f.dups.list # <<>>
                                                          /\ ~f.sorted.present)}

\* C20: a find_duplicate_images_result without data, or with duplicates and
\* without sorted_images, throws inside the listener's try: the page, the
\* highlights, isPageSorted and originalSortOrder stay as they were, the
\* channel stays open, and the next frame and the next click are handled.
C20_MalformedResultIsolated ==
    [][ \A f \in MalformedFrames : MessageEvent(f) =>
          /\ last'.threw /\ ~last'.applied /\ ~last'.reset
          /\ UNCHANGED <<items, isPageSorted, originalSortOrder, ul, channelVars, fdPc>>
          /\ readyState' = "OPEN" /\ socketState' /\ loaded' /\ ~failing'
          /\ fdPc' = "ready" ]_vars

C20_Witness ==
    /\ last.h = "message" /\ last.threw /\ last.toast = "found"
    /\ isPageSorted /\ Highlighted(items) # {}
    /\ readyState = "OPEN" /\ fdPc = "ready"

\* ---------------------------------------------------------------------------
\* C21 as stated: once the error handler has run on a channel that was open,
\* socketState is false.
C21_AsStated ==
    (last.h = "error" /\ last.connOpen) => ~socketState

\* C21: the error handler only logs, so when it returns on a channel that was
\* open socketState is still true and the socket is closed; the one handler
\* that can run next is the close listener, and it is that listener which sets
\* socketState to false, with the lost-connection warning when the channel
\* was open.
C21_ClosedByCloseListener ==
    /\ [](last.h = "error" =>
            /\ socketState = last.connOpen
            /\ failing /\ readyState = "CLOSED")
    /\ [][failing =>
            /\ last'.h = "close"
            /\ ~socketState' /\ ~failing' /\ readyState' = "CLOSED"
            /\ last'.warn = (IF socketState THEN "lost" ELSE "none")]_vars

C21_Witness ==
    /\ last.h = "error" /\ last.connOpen
    /\ socketState /\ failing /\ readyState = "CLOSED"

\* ---------------------------------------------------------------------------
\* C22: originalSortOrder is written only when isPageSorted is false (a click
\* that reaches the capture leaves the page unsorted), and it is either empty
\* or the catalog of the page as it was before any reordering, also when a
\* result arrived before any catalog was captured.
C22_OriginalOrderAuthoritative ==
    /\ (last.h = "click" /\ last.find /\ last.toast # "offline") => ~isPageSorted
    /\ \/ originalSortOrder = <<>>
       \/ originalSortOrder = getAllImagesFromCurrentPage(ul, firstItems)

\* ---------------------------------------------------------------------------
ItemIds(lis) == [i \in 1..Len(lis) |-> lis[i].id]

\* C23: after an applied result followed by a reset, the sequence of list
\* items is the sequence before the first applied result, also on pages with
\* several items of one filename or items without a filename. Stated for the
\* resets the result listener makes by the catalog of the untouched page.
C23_ResetRestoresItems ==
    (last.h = "message" /\ last.reset
        /\ originalSortOrder = getAllImagesFromCurrentPage(ul, firstItems))
        => ItemIds(items) = ItemIds(firstItems)

\* ---------------------------------------------------------------------------
\* C24: every frame is seen by both listeners and each acts on its own kinds
\* only. The client's listener takes a find_duplicate_images_result frame for
\* an unrecognized one: it changes no connection, version or window state and
\* sends no frame. The result listener does nothing on toast, version_result,
\* "connected", "reload" and unknown frames: page order, highlights,
\* isPageSorted and originalSortOrder stay as they were.
C24_FanOut ==
    /\ [](/\ \A f \in SessionResultFrames : \A c \in {clientListener(f)} :
                /\ c.frame = "unrecognized" /\ c.outcome = "none"
                /\ ~c.expose /\ ~c.request /\ ~c.reload
          /\ \A f \in ControlFrames :
                resultListener(f, ul, items, isPageSorted, originalSortOrder)
                    = noResult(items, isPageSorted))
    /\ [][last'.h = "message" =>
            /\ last'.frame = "unrecognized" =>
                  /\ UNCHANGED <<loaded, channelVars, negotiationVars, windowVars, fdPc>>
                  /\ last'.out = NoFrame /\ last'.outcome = "none"
            /\ (last'.frame # "unrecognized" \/ (last'.toast = "none" /\ ~last'.threw)) =>
                  /\ UNCHANGED <<items, isPageSorted, originalSortOrder>>
                  /\ ~last'.applied /\ ~last'.reset]_vars

C24_Witness ==
    /\ last.h = "message" /\ last.frame = "unrecognized"
    /\ last.applied /\ isPageSorted /\ Highlighted(items) # {}
    /\ winSocketState /\ versionDecided /\ last.out = NoFrame

\* ---------------------------------------------------------------------------
\* C25: every find_duplicate_images request carries minSimilarityThreshold as
\* a number, not a string, equal to the displayed percentage divided by 100
\* and within [0.01, 1.00]: the default of the page when no widget was used,
\* and still a number after any sequence of widget events.
C25_ThresholdIsNumber ==
    last.out.action = "find_duplicate_images" =>
        /\ last.out.minSimilarityThreshold.type = "number"
        /\ \E v \in SLIDER_MIN..SLIDER_MAX :
              /\ ThresholdIs(last.out.minSimilarityThreshold, v)
              /\ inputBox = ToStr(v) /\ slider = ToStr(v)

\* ---------------------------------------------------------------------------
\* C26: once the namespace is exposed, window.TmdbAdvScp.socketState is the
\* current state of the channel; in particular it is false after the close
\* event.
C26_ExposedStateIsCurrent ==
    /\ exposed => winSocketState = socketState
    /\ (exposed /\ last.h = "close") => ~winSocketState

\* ---------------------------------------------------------------------------
\* C27: whenever isPageSorted is false, no list item carries the duplicate
\* highlight.
C27_UnsortedPageHasNoHighlight ==
    ~isPageSorted => Highlighted(items) = {}

C27_Witness ==
    /\ last.reset /\ ~isPageSorted
    /\ Highlighted(items) = {}
    /\ ItemIds(items) # ItemIds(firstItems)
    /\ \E i \in 1..Len(items) : items[i].info

\* ---------------------------------------------------------------------------
\* C28: a click on a page that shows the no_results placeholder sends no frame
\* and shows the no-images toast; a click whose captured catalog is empty
\* sends no frame; the images of every request sent are a non-empty list
\* without repeats.
C28_NoEmptyRequest ==
    /\ (last.h = "click" /\ ul /\ items # <<>> /\ items[1].id = "no_results") =>
          /\ last.out = NoFrame /\ last.toast = "no_images" /\ ~last.find
    /\ (last.h = "click" /\ last.find /\ last.toast # "offline"
            /\ getAllImagesFromCurrentPage(ul, items) = <<>>) =>
          /\ last.out = NoFrame /\ originalSortOrder = <<>>
    /\ last.out.action = "find_duplicate_images" =>
          /\ last.out.images # <<>> /\ NoRepeats(last.out.images)
          /\ \A i \in 1..Len(last.out.images) : last.out.images[i] # ""

C28_Witness ==
    /\ last.h = "click" /\ last.find /\ last.toast = "none"
    /\ winSocketState /\ readyState = "OPEN"
    /\ getAllImagesFromCurrentPage(ul, items) = <<>>
    /\ last.out = NoFrame

\* ---------------------------------------------------------------------------
\* C29: with the polling timers running, once the exposed socketState reads
\* true and the body exists the script leaves its startup wait and, as soon as
\* the header exists too, injects its controls, unless the page is reloaded
\* first: from then on it is either ready or started with the header still
\* missing. The listener is registered once and the controls are injected once.
\* While the awaited condition has not been true the script stays in its
\* wait: it touches neither the page nor the widgets, acts on no frame and
\* sends no request.
C29_StartupPolling ==
    /\ (winSocketState /\ body) ~>
          (~loaded \/ fdPc = "ready" \/ (fdPc = "started" /\ ~header))
    /\ [](/\ fdPc # "waiting" => (winSocketState /\ body /\ everOpen /\ exposed)
          /\ fdPc = "ready" => (header /\ inputBox # <<>> /\ slider # <<>>)
          /\ fdPc # "ready" => (inputBox = <<>> /\ slider = <<>>)
          /\ fdPc = "waiting" =>
                /\ items = firstItems /\ ~isPageSorted /\ originalSortOrder = <<>>
                /\ imageType = "null" /\ minSimilarityThreshold = NoThreshold
          /\ last.out.action = "find_duplicate_images" => fdPc = "ready")
    /\ [][/\ fdPc' # fdPc => last'.h \in {"startup", "injectUI"}
          /\ last'.h = "startup" => (fdPc = "waiting" /\ fdPc' # "waiting")
          /\ last'.h = "injectUI" => (fdPc = "started" /\ fdPc' = "ready")
          /\ fdPc = "waiting" => (~last'.applied /\ ~last'.reset /\ ~last'.threw /\ ~last'.find)]_vars

C29_Witness ==
    /\ last.h = "injectUI" /\ fdPc = "ready"
    /\ winSocketState /\ body /\ header
    /\ inputBox # <<>> /\ slider = inputBox

====
